---- MODULE Spec2Model ----
(***************************************************************************)
(* Model of the LabCorp PDF renamer (src/renombrador_labcorp.py) and of    *)
(* the file placement of the authorisations ETL                            *)
(* (src/etl_autorizaciones.py).                                            *)
(*                                                                         *)
(* Texts are sequences of one-character strings; every regular expression  *)
(* of the source is an operator that computes the match Python's           *)
(* backtracking matcher returns (leftmost start, then the source's         *)
(* greedy / lazy priorities).                                              *)
(***************************************************************************)
EXTENDS Integers, Sequences, FiniteSets, TLC

VARIABLES
    ocr_pc, ocr_x, ocr_y1, ocr_y2,      \* the text normalizer applied twice
    f_pc, f_in, f_out,                  \* the date normalizer applied once
    \* procesar_pdf on one document:
    e_pc,           \* "leer", then the strategy about to run, then "fin"
    doc,            \* the document: what pdfplumber and the OCR give for it
    txt,            \* the text leer_texto_pdf returned
    intentos,       \* the strategies run so far, in order
    resA, resB, resC,   \* what each strategy returned
    resultado,      \* what procesar_pdf returns
    \* the batch loops, main of the renamer and process_all of the ETL:
    m_prog,         \* which of the two programs runs
    m_pc,           \* "lote" in the loop, then "fin", or "abortado"
    m_lista,        \* what os.listdir returned
    m_i,            \* the entry of m_lista the loop is at
    m_destino,      \* the names of the files in the output directory
    m_movidos,      \* the moves done: source, destination, and whether the
                    \* destination existed when shutil.move was called
    m_log,          \* the lines of the renamer's log: level and file
    no_renombrados  \* the list main builds

ocr_vars == <<ocr_pc, ocr_x, ocr_y1, ocr_y2>>
f_vars == <<f_pc, f_in, f_out>>
e_vars == <<e_pc, doc, txt, intentos, resA, resB, resC, resultado>>
m_vars == <<m_prog, m_pc, m_lista, m_i, m_destino, m_movidos, m_log,
            no_renombrados>>
vars == <<ocr_pc, ocr_x, ocr_y1, ocr_y2, f_pc, f_in, f_out,
          e_pc, doc, txt, intentos, resA, resB, resC, resultado,
          m_prog, m_pc, m_lista, m_i, m_destino, m_movidos, m_log,
          no_renombrados>>

(***************************************************************************)
(* Characters and strings                                                  *)
(***************************************************************************)
Chars(s) == [i \in 1..Len(s) |-> SubSeq(s, i, i)]

Mayusculas == Chars("ABCDEFGHIJKLMNOPQRSTUVWXYZ")
Minusculas == Chars("abcdefghijklmnopqrstuvwxyz")
Digitos == Chars("0123456789")

Range(f) == {f[i] : i \in DOMAIN f}

LetraSet == Range(Mayusculas) \cup Range(Minusculas)
DigitoSet == Range(Digitos)
\* \w of the regular expressions, on the characters the model uses
WordSet == LetraSet \cup DigitoSet \cup {"_"}
\* \s of the regular expressions
EspacioSet == {" ", "\t", "\n", "\r", "\f"}

\* str.upper() on one character
UpperTabla == [c \in Range(Minusculas) |->
                 Mayusculas[CHOOSE i \in 1..26 : Minusculas[i] = c]]
UpperC(c) == IF c \in DOMAIN UpperTabla THEN UpperTabla[c] ELSE c
Upper(s) == [i \in 1..Len(s) |-> UpperC(s[i])]

\* s[i-1:j-1] of Python for 1-based i and exclusive j
Corte(s, i, j) == IF j <= i THEN <<>> ELSE SubSeq(s, i, j - 1)

\* the text has the literal lit at position i
EmpiezaEn(s, i, lit) ==
    /\ i + Len(lit) - 1 <= Len(s)
    /\ \A k \in 1..Len(lit) : s[i + k - 1] = lit[k]

\* same, ignoring case (re.IGNORECASE on a literal)
EmpiezaEnCI(s, i, lit) ==
    /\ i + Len(lit) - 1 <= Len(s)
    /\ \A k \in 1..Len(lit) : UpperC(s[i + k - 1]) = UpperC(lit[k])

Max(S) == CHOOSE x \in S : \A y \in S : y <= x
Min(S) == CHOOSE x \in S : \A y \in S : x <= y

\* index after the longest run of characters of S that starts at i
FinRacha(s, i, S) ==
    IF \A j \in i..Len(s) : s[j] \in S
    THEN (IF i > Len(s) THEN i ELSE Len(s) + 1)
    ELSE CHOOSE j \in i..Len(s) :
             s[j] \notin S /\ \A k \in i..(j - 1) : s[k] \in S

(***************************************************************************)
(* normalizar_ocr                                                          *)
(***************************************************************************)
\* str.replace(a, b): leftmost, non-overlapping occurrences
\* (the first occurrence of a from i on, or 0)
Ocurrencia(s, i, a) ==
    IF \E j \in i..Len(s) : EmpiezaEn(s, j, a)
    THEN CHOOSE j \in i..Len(s) :
             EmpiezaEn(s, j, a) /\ \A k \in i..(j - 1) : ~EmpiezaEn(s, k, a)
    ELSE 0

RECURSIVE ReplaceDesde(_, _, _, _)
ReplaceCon(s, i, a, b, p) ==
    IF p = 0 THEN Corte(s, i, Len(s) + 1)
    ELSE Corte(s, i, p) \o b \o ReplaceDesde(s, p + Len(a), a, b)

ReplaceDesde(s, i, a, b) == ReplaceCon(s, i, a, b, Ocurrencia(s, i, a))

Replace(s, a, b) == ReplaceDesde(s, 1, a, b)

\* the dict rep, in insertion order
rep == << <<Chars("D0B"), Chars("DOB")>>,
          <<Chars("D0 B"), Chars("DOB")>>,
          <<Chars("D.O.B"), Chars("DOB")>>,
          <<Chars("D 0 B"), Chars("DOB")>>,
          <<Chars("0/"), Chars("0/")>>,
          <<Chars(" O/"), Chars(" 0/")>> >>

RECURSIVE AplicarRep(_, _)
AplicarRep(s, k) ==
    IF k > Len(rep) THEN s
    ELSE AplicarRep(Replace(s, rep[k][1], rep[k][2]), k + 1)

\* re.sub of every run of characters of S by one space: the characters
\* outside S stay, the first character of each run becomes the space
Colapsar(s, S) ==
    LET idx == SelectSeq([j \in 1..Len(s) |-> j],
                         LAMBDA j : s[j] \notin S \/ j = 1 \/ s[j - 1] \notin S)
    IN [k \in 1..Len(idx) |-> IF s[idx[k]] \in S THEN " " ELSE s[idx[k]]]

\* re.sub(r"[ \t]+", " ", s)
ColapsarBlancos(s) == Colapsar(s, {" ", "\t"})

normalizar_ocr(s) ==
    LET t1 == AplicarRep(s, 1)
        t2 == Replace(t1, <<"\r">>, <<"\n">>)
    IN ColapsarBlancos(t2)

(***************************************************************************)
(* normalizar_fecha                                                        *)
(***************************************************************************)
\* int(s) of a string of digits
RECURSIVE ParseInt(_)
ParseInt(s) ==
    IF Len(s) = 0 THEN 0
    ELSE 10 * ParseInt(SubSeq(s, 1, Len(s) - 1))
         + (CHOOSE k \in 0..9 : Digitos[k + 1] = s[Len(s)])

\* str(n) for n >= 0
RECURSIVE IntAChars(_)
IntAChars(n) ==
    IF n < 10 THEN <<Digitos[n + 1]>>
    ELSE IntAChars(n \div 10) \o <<Digitos[(n % 10) + 1]>>

\* f"{n:02d}" and strftime's %m, %d
Pad2(n) == IF n < 10 THEN <<"0">> \o IntAChars(n) ELSE IntAChars(n)

\* str.strip()
RECURSIVE FinSinBlancos(_, _)
FinSinBlancos(s, j) ==
    IF j >= 1 /\ s[j] \in EspacioSet THEN FinSinBlancos(s, j - 1) ELSE j

Strip(s) ==
    LET i == FinRacha(s, 1, EspacioSet)
        j == FinSinBlancos(s, Len(s))
    IN Corte(s, i, j + 1)

\* the year dateutil completes a two-digit year against (datetime.now())
AnioActual == 2026

\* dateutil.parser.parserinfo.MONTHS, upper-cased
MesesTabla ==
    << {Chars("JAN"), Chars("JANUARY")}, {Chars("FEB"), Chars("FEBRUARY")},
       {Chars("MAR"), Chars("MARCH")}, {Chars("APR"), Chars("APRIL")},
       {Chars("MAY")}, {Chars("JUN"), Chars("JUNE")},
       {Chars("JUL"), Chars("JULY")}, {Chars("AUG"), Chars("AUGUST")},
       {Chars("SEP"), Chars("SEPT"), Chars("SEPTEMBER")},
       {Chars("OCT"), Chars("OCTOBER")}, {Chars("NOV"), Chars("NOVEMBER")},
       {Chars("DEC"), Chars("DECEMBER")} >>

\* parserinfo.month(token): 1..12, or 0 when the token names no month
MesDe(tok) ==
    LET u == Upper(tok)
    IN IF \E k \in 1..12 : u \in MesesTabla[k]
       THEN CHOOSE k \in 1..12 : u \in MesesTabla[k]
       ELSE 0

\* dateutil's lexer on the characters the dates of the model are made of:
\* a run of letters, a run of digits, or one other character
RECURSIVE Tokens(_, _)
Tokens(s, i) ==
    IF i > Len(s) THEN <<>>
    ELSE LET S == IF s[i] \in LetraSet THEN LetraSet
                  ELSE IF s[i] \in DigitoSet THEN DigitoSet
                  ELSE {}
             j == IF S = {} THEN i + 1 ELSE FinRacha(s, i, S)
         IN <<Corte(s, i, j)>> \o Tokens(s, j)

EsNumero(tok) == Len(tok) > 0 /\ tok[1] \in DigitoSet

\* _ymd.append of a token taken from the string: more than two digits make it
\* the year
YmdDeToken(tok) ==
    [v |-> ParseInt(tok), lab |-> IF Len(tok) > 2 THEN "Y" ELSE ""]

\* _ymd.append of a number already converted: above 100 it is the year
YmdDeValor(tok) ==
    [v |-> ParseInt(tok), lab |-> IF ParseInt(tok) > 100 THEN "Y" ELSE ""]

\* The token loop of dateutil's _parse with fuzzy=True, for strings that hold
\* one date: numbers joined by "/" (01/02[/03]), a month name, and numbers
\* that stand alone; every other token is skipped.  A fourth number is
\* outside what the model covers (dom = FALSE).
RECURSIVE YmdDesde(_, _, _)
YmdDesde(toks, i, acc) ==
    IF i > Len(toks) THEN [ymd |-> acc, dom |-> TRUE]
    ELSE LET t == toks[i]
             n == Len(toks)
         IN IF EsNumero(t)
            THEN IF Len(acc) >= 3 THEN [ymd |-> acc, dom |-> FALSE]
                 ELSE IF i + 1 <= n /\ toks[i + 1] = <<"/">>
                 THEN IF i + 2 <= n /\ EsNumero(toks[i + 2])
                      THEN IF i + 4 <= n /\ toks[i + 3] = <<"/">>
                                /\ EsNumero(toks[i + 4])
                           THEN YmdDesde(toks, i + 5,
                                    acc \o <<YmdDeToken(t), YmdDeToken(toks[i + 2]),
                                             YmdDeToken(toks[i + 4])>>)
                           ELSE YmdDesde(toks, i + 3,
                                    acc \o <<YmdDeToken(t), YmdDeToken(toks[i + 2])>>)
                      ELSE [ymd |-> acc, dom |-> FALSE]
                 ELSE IF i = n \/ toks[i + 1] \in {<<" ">>, <<",">>}
                 THEN YmdDesde(toks, i + 1, Append(acc, YmdDeValor(t)))
                 ELSE [ymd |-> acc, dom |-> FALSE]
            ELSE IF t[1] \in LetraSet /\ MesDe(t) > 0
            THEN IF i + 1 <= n /\ toks[i + 1] = <<"/">>
                 THEN [ymd |-> acc, dom |-> FALSE]
                 ELSE YmdDesde(toks, i + 1, Append(acc, [v |-> MesDe(t), lab |-> "M"]))
            ELSE YmdDesde(toks, i + 1, acc)

Bisiesto(y) == (y % 4 = 0 /\ y % 100 # 0) \/ y % 400 = 0

DiasDelMes(y, m) ==
    IF m \in {4, 6, 9, 11} THEN 30
    ELSE IF m = 2 THEN (IF Bisiesto(y) THEN 29 ELSE 28)
    ELSE 31

\* parserinfo.convertyear
ConvertYear(y, siglo) ==
    IF y < 100 /\ ~siglo
    THEN LET y1 == y + (AnioActual \div 100) * 100
         IN IF y1 >= AnioActual + 50 THEN y1 - 100
            ELSE IF y1 < AnioActual - 50 THEN y1 + 100
            ELSE y1
    ELSE y

\* _ymd.resolve_ymd for three members, dayfirst = yearfirst = False
ResolveYmd(a) ==
    LET labs == {k \in 1..3 : a[k].lab # ""}
        iM == IF \E k \in 1..3 : a[k].lab = "M"
              THEN CHOOSE k \in 1..3 : a[k].lab = "M" ELSE 0
        iY == IF \E k \in 1..3 : a[k].lab = "Y"
              THEN CHOOSE k \in 1..3 : a[k].lab = "Y" ELSE 0
    IN IF iM > 0 /\ iY > 0
       THEN [y |-> a[iY].v, m |-> a[iM].v,
             d |-> a[CHOOSE k \in 1..3 : k # iM /\ k # iY].v]
       ELSE IF iM = 1
       THEN (IF a[2].v > 31 THEN [m |-> a[1].v, y |-> a[2].v, d |-> a[3].v]
             ELSE [m |-> a[1].v, d |-> a[2].v, y |-> a[3].v])
       ELSE IF iM = 2
       THEN (IF a[1].v > 31
             THEN [y |-> a[1].v, m |-> a[2].v, d |-> a[3].v]
             ELSE [d |-> a[1].v, m |-> a[2].v, y |-> a[3].v])
       ELSE IF iM = 3
       THEN (IF a[2].v > 31 THEN [d |-> a[1].v, y |-> a[2].v, m |-> a[3].v]
             ELSE [y |-> a[1].v, d |-> a[2].v, m |-> a[3].v])
       ELSE IF a[1].v > 31 \/ iY = 1
       THEN [y |-> a[1].v, m |-> a[2].v, d |-> a[3].v]
       ELSE IF a[1].v > 12
       THEN [d |-> a[1].v, m |-> a[2].v, y |-> a[3].v]
       ELSE [m |-> a[1].v, d |-> a[2].v, y |-> a[3].v]

NoFecha == [ok |-> FALSE, dom |-> TRUE, y |-> 0, m |-> 0, d |-> 0]

\* the date of the resolved members f, the year completed by convertyear;
\* datetime's constructor raises on a member out of range
FechaDe(f, y) ==
    IF /\ y >= 1 /\ y <= 9999
       /\ f.m >= 1 /\ f.m <= 12
       /\ f.d >= 1 /\ f.d <= DiasDelMes(y, f.m)
    THEN [ok |-> TRUE, dom |-> TRUE, y |-> y, m |-> f.m, d |-> f.d]
    ELSE NoFecha

FechaResuelta(f, siglo) == FechaDe(f, ConvertYear(f.y, siglo))

\* the date of the members r the token loop found
FechaDeYmd(r) ==
    IF ~r.dom THEN [NoFecha EXCEPT !.dom = FALSE]
    ELSE IF Len(r.ymd) = 0 THEN NoFecha
    ELSE IF Len(r.ymd) < 3 THEN [NoFecha EXCEPT !.dom = FALSE]
    ELSE IF Len(r.ymd) > 3 THEN NoFecha      \* "More than three YMD values"
    ELSE IF Cardinality({k \in 1..3 : r.ymd[k].lab = "Y"}) > 1 THEN NoFecha
    ELSE FechaResuelta(ResolveYmd(r.ymd), \E k \in 1..3 : r.ymd[k].lab = "Y")

\* dtparser.parse(s, dayfirst=False, fuzzy=True): the date, or ok = FALSE
\* where dateutil raises.  dom = FALSE marks a string the model of the
\* library does not cover (fewer than three members found: dateutil
\* completes them from today's date).
DtParse(s) == FechaDeYmd(YmdDesde(Tokens(s, 1), 1, <<>>))

\* ends (exclusive) of a \d{1,2} that starts at k, in priority order
Fin12(s, k) ==
    IF k + 1 <= Len(s) /\ s[k] \in DigitoSet /\ s[k + 1] \in DigitoSet
    THEN <<k + 2, k + 1>>
    ELSE IF k <= Len(s) /\ s[k] \in DigitoSet THEN <<k + 1>> ELSE <<>>

\* end (exclusive) of a \d{2,4} that starts at k, or 0
FinAnio(s, k) ==
    LET e == FinRacha(s, k, DigitoSet)
        e4 == IF e > k + 4 THEN k + 4 ELSE e
    IN IF e4 >= k + 2 THEN e4 ELSE 0

EsSep(s, k) == k <= Len(s) /\ s[k] \in {"/", "-"}

\* the ends of the matches of \d{1,2}[/-] anchored at k, in priority order
RECURSIVE FinesNumSep(_, _, _)
FinesNumSep(s, f, x) ==
    IF x > Len(f) THEN <<>>
    ELSE (IF EsSep(s, f[x]) THEN <<f[x] + 1>> ELSE <<>>) \o FinesNumSep(s, f, x + 1)

\* \d{1,2}[/-]\d{1,2}[/-]\d{2,4} anchored at i: the exclusive ends of the
\* three numbers, or <<>>.  Both \d{1,2} are greedy and give a digit back
\* when no separator follows two digits; \d{2,4} takes up to four digits.
RECURSIVE FechaNumDesde(_, _, _, _)
FechaNumDesde(s, a, x, y) ==
    \* a: the starts of the second number; x: index in a; y: index among the
    \* starts of the year for a[x]
    IF x > Len(a) THEN <<>>
    ELSE LET b == FinesNumSep(s, Fin12(s, a[x]), 1)
         IN IF y > Len(b) THEN FechaNumDesde(s, a, x + 1, 1)
            ELSE IF FinAnio(s, b[y]) > 0
            THEN <<a[x] - 1, b[y] - 1, FinAnio(s, b[y])>>
            ELSE FechaNumDesde(s, a, x, y + 1)

FechaNumEn(s, i) == FechaNumDesde(s, FinesNumSep(s, Fin12(s, i), 1), 1, 1)

\* the groups of a match that starts at i and whose numbers end at e
GruposFecha(s, i, e) ==
    <<Corte(s, i, e[1]), Corte(s, e[1] + 1, e[2]), Corte(s, e[2] + 1, e[3])>>

\* the groups of the match that starts at the least of the positions I
FechaPrimera(s, I) ==
    IF I = {} THEN <<>>
    ELSE GruposFecha(s, Min(I), FechaNumEn(s, Min(I)))

\* re.search(r"(\d{1,2})[/-](\d{1,2})[/-](\d{2,4})", s): the groups of the
\* leftmost match, or <<>>
FechaRegex(s) == FechaPrimera(s, {i \in 1..Len(s) : FechaNumEn(s, i) # <<>>})

\* the year test of the try block (line 84)
AnioFueraDeRango(y) == y < 1900 \/ y > 2100

Falla == [ok |-> FALSE, val |-> <<>>]

\* dt.strftime("%m-%d-%Y")
Strftime(dt) ==
    Pad2(dt.m) \o <<"-">> \o Pad2(dt.d) \o <<"-">> \o IntAChars(dt.y)

\* lines 89-94: the groups g of the regular expression, <<>> for no match
FechaDeGrupos(g) ==
    IF g = <<>> THEN Falla
    ELSE [ok |-> TRUE,
          val |-> Pad2(ParseInt(g[1])) \o <<"-">> \o Pad2(ParseInt(g[2]))
                  \o <<"-">>
                  \o (IF Len(g[3]) = 4 THEN g[3] ELSE <<"2", "0">> \o g[3])]

\* lines 81-94 on the string s of line 80 and the outcome dt of dtparser.parse
FechaDeParse(s, dt) ==
    IF dt.ok /\ ~AnioFueraDeRango(dt.y)
    THEN [ok |-> TRUE, val |-> Strftime(dt)]
    ELSE \* except Exception: the regular expression on the same string
         FechaDeGrupos(FechaRegex(s))

\* line 80
Sustituir(fecha_str) ==
    Replace(Replace(Replace(Strip(fecha_str), <<"\\">>, <<"/">>),
                    <<".">>, <<"/">>), <<"-">>, <<"/">>)

FechaSustituida(s) == FechaDeParse(s, DtParse(s))

\* normalizar_fecha: ok = FALSE where the function raises
normalizar_fecha(fecha_str) == FechaSustituida(Sustituir(fecha_str))

(***************************************************************************)
(* Names: limpiar_nombre, es_nombre_valido, formar_nombre                  *)
(***************************************************************************)
NEGATIVOS == {
    Chars("DATE OF BIRTH"), Chars("DOB FEMALE"), Chars("DOB MALE"),
    Chars("PATIENT ID"), Chars("ACCOUNT NO"), Chars("LOS ANGELES"),
    Chars("LOS "), Chars("CA "), Chars("GLENDALE"), Chars("DOWNEY"),
    Chars("PASADENA"), Chars("ROSEMEAD"), Chars("CENTER"), Chars("HOSPITAL"),
    Chars("FAMILY HEALTH"), Chars("ENDOCRINOLOGY"), Chars("VISIT"),
    Chars("OFFICE"), Chars("STREET"), Chars("ST."), Chars("BLVD"),
    Chars("AVENUE"), Chars("FAX"), Chars("COVER"), Chars("SHEET"),
    Chars("RESULT"), Chars("REPORT"), Chars("SUMMARY"), Chars("MRN"),
    Chars("ACC NO"), Chars("ACCNO"), Chars("BILLING"), Chars("LAB"),
    Chars("LIPID"), Chars("PANEL"), Chars("COMPREHENSIVE"), Chars("METABOLIC"),
    Chars("REQUEST"), Chars("INFORMATION") }

\* sub in s
Contiene(s, sub) == \E i \in 1..Len(s) : EmpiezaEn(s, i, sub)

\* re.sub(r"\s+", " ", s)
ColapsarEspacios(s) == Colapsar(s, EspacioSet)

\* the characters limpiar_nombre replaces by "-"
Ilegales == {"\\", "/", "*", "?", ":", "\"", "<", ">", "|", "\r", "\n"}

limpiar_nombre(s) ==
    LET t == [k \in 1..Len(s) |-> IF s[k] \in Ilegales THEN "-" ELSE s[k]]
    IN Strip(ColapsarEspacios(t))

\* es_nombre_valido without the test against NEGATIVOS
es_nombre_valido_sin_negativos(nombre) ==
    /\ ~(Len(nombre) < 5)
    /\ " " \in Range(nombre)
    /\ ~\E k \in 1..Len(nombre) : FinRacha(nombre, k, DigitoSet) >= k + 3

es_nombre_valido(nombre) ==
    LET up == Upper(nombre)
    IN /\ ~(Len(up) < 5)
       /\ \A neg \in NEGATIVOS : ~Contiene(up, neg)
       /\ " " \in Range(up)
       /\ ~\E k \in 1..Len(up) : FinRacha(up, k, DigitoSet) >= k + 3

\* the order in which formar_nombre joins its parameters (line 158)
OrdenNombre(fn, ln) == ln \o <<" ">> \o fn

\* formar_nombre(fn, ln); " ".join(nombre.split()) is the collapse of the
\* whitespace runs of the stripped string
formar_nombre(fn, ln) ==
    LET nombre == Strip(OrdenNombre(fn, ln))
    IN limpiar_nombre(Upper(ColapsarEspacios(nombre)))

(***************************************************************************)
(* The regular expressions of the extraction                               *)
(***************************************************************************)
\* \b between the characters i-1 and i
EsWord(s, k) == k >= 1 /\ k <= Len(s) /\ s[k] \in WordSet

LimiteEn(s, i) == EsWord(s, i - 1) # EsWord(s, i)

NombreClase == LetraSet \cup {"'", " ", "-"}        \* [A-Za-z' \-]
DosPuntosEsp == EspacioSet \cup {":"}               \* [:\s]
G3Clase == DigitoSet \cup LetraSet \cup {"/", ",", "-", " "}   \* [0-9A-Za-z/,\- ]

\* index after the longest run of characters outside S that starts at i
FinRachaNo(s, i, S) ==
    IF \A j \in i..Len(s) : s[j] \notin S
    THEN (IF i > Len(s) THEN i ELSE Len(s) + 1)
    ELSE CHOOSE j \in i..Len(s) :
             s[j] \in S /\ \A k \in i..(j - 1) : s[k] \notin S

NoPar == [ok |-> FALSE, e1 |-> 0, w |-> 0, max |-> 0]

\* ([A-Z][A-Za-z' \-]+),\s*([A-Z][A-Za-z' \-]+) anchored at i, re.IGNORECASE:
\* group 1 is s[i..e1-1] (the whole run up to the comma), group 2 starts at w
\* and ends at most at max (exclusive), at least two characters long
ParNombre(s, i) ==
    IF ~(i >= 1 /\ i <= Len(s) /\ s[i] \in LetraSet) THEN NoPar
    ELSE LET e1 == FinRacha(s, i + 1, NombreClase)
         IN IF ~(e1 >= i + 2 /\ e1 <= Len(s) /\ s[e1] = ",") THEN NoPar
            ELSE LET w == FinRacha(s, e1 + 1, EspacioSet)
                 IN IF ~(w <= Len(s) /\ s[w] \in LetraSet) THEN NoPar
                    ELSE LET m == FinRacha(s, w + 1, NombreClase)
                         IN IF m >= w + 2
                            THEN [ok |-> TRUE, e1 |-> e1, w |-> w, max |-> m]
                            ELSE NoPar

NoCola == [ok |-> FALSE, c |-> 0, e |-> 0]

\* [:\s]*([0-9A-Za-z/,\- ]{4,}) anchored at q: [:\s]* is greedy and gives
\* characters back until four characters of group 3 follow
ColaDob(s, q) ==
    LET cmax == FinRacha(s, q, DosPuntosEsp)
        C == {c \in q..cmax : FinRacha(s, c, G3Clase) >= c + 4}
    IN IF C = {} THEN NoCola
       ELSE LET c == CHOOSE c \in C : \A o \in C : o <= c
            IN [ok |-> TRUE, c |-> c, e |-> FinRacha(s, c, G3Clase)]

\* the ends (exclusive) of DOB anchored at p, re.IGNORECASE
FinesDOB(s, p) == IF EmpiezaEnCI(s, p, Chars("DOB")) THEN <<p + 3>> ELSE <<>>

\* the ends of D\.?O\.?B\.? anchored at p, in the matcher's priority order
EsLetra(s, k, c) == k <= Len(s) /\ UpperC(s[k]) = c

\* \.? anchored at k: the point is taken when it is there
SaltaPunto(s, k) == IF EsLetra(s, k, ".") THEN k + 1 ELSE k

FinesDOBPuntos(s, p) ==
    LET o == SaltaPunto(s, p + 1)
        b == SaltaPunto(s, o + 1)
    IN IF EsLetra(s, p, "D") /\ EsLetra(s, o, "O") /\ EsLetra(s, b, "B")
       THEN (IF EsLetra(s, b + 1, ".") THEN <<b + 2, b + 1>> ELSE <<b + 1>>)
       ELSE <<>>

\* the ends of (?:DOB|D\.?O\.?B\.?) anchored at p, in priority order
FinesEtiqueta(s, p) == FinesDOB(s, p) \o FinesDOBPuntos(s, p)

\* where the name pair starts for a match of pattern k of NAME_DOB_REGEXES
\* that starts at i (0: the prefix does not match at i):
\*   1, 4: \b    2: \bPatient\s*Name[:\s]*    3: \bPatient[:\s]*(?:\d+\s*-\s*)?
InicioNombre(s, i, k) ==
    IF ~LimiteEn(s, i) THEN 0
    ELSE IF k \in {1, 4} THEN i
    ELSE IF ~EmpiezaEnCI(s, i, Chars("Patient")) THEN 0
    ELSE IF k = 2
    THEN LET j == FinRacha(s, i + 7, EspacioSet)
         IN IF EmpiezaEnCI(s, j, Chars("Name"))
            THEN FinRacha(s, j + 4, DosPuntosEsp) ELSE 0
    ELSE LET c == FinRacha(s, i + 7, DosPuntosEsp)
             d == FinRacha(s, c, DigitoSet)
             g == FinRacha(s, d, EspacioSet)
         IN IF d > c /\ g <= Len(s) /\ s[g] = "-"
            THEN FinRacha(s, g + 1, EspacioSet)
            ELSE c

NoMatch == [ini |-> 0, fin |-> 0, g |-> <<>>]

\* the label of pattern k of NAME_DOB_REGEXES anchored at p: the ends of
\* \bDOB (1..3) or \b(?:DOB|D\.?O\.?B\.?) (4) after which the tail matches,
\* in priority order
RECURSIVE ConCola(_, _, _)
ConCola(s, f, x) ==
    IF x > Len(f) THEN <<>>
    ELSE (IF ColaDob(s, f[x]).ok THEN <<f[x]>> ELSE <<>>) \o ConCola(s, f, x + 1)

FinesBuenos(s, p, k) ==
    IF ~LimiteEn(s, p) THEN <<>>
    ELSE ConCola(s, IF k = 4 THEN FinesEtiqueta(s, p) ELSE FinesDOB(s, p), 1)

\* how far the lazy gap of pattern k reaches from e: .*? to the end of the
\* text (DOTALL), [^ \n]{0,60}? at most 60 characters, none a space or newline
Alcance(s, e, k) ==
    IF k = 4
    THEN LET r == FinRachaNo(s, e, {" ", "\n"})
         IN IF r > e + 60 THEN e + 60 ELSE r
    ELSE Len(s)

\* the positions from w + 2 on where the label of pattern k and its tail match
Etiquetas(s, k, w) == {p \in (w + 2)..Len(s) : FinesBuenos(s, p, k) # <<>>}

\* the positions of P the lazy gap reaches from e
AlAlcance(s, k, P, e) == {p \in P : p >= e /\ p <= Alcance(s, e, k)}

\* the match object: its start, its end (exclusive) and its groups
NombreDobDe(s, i, a, par, e, cola) ==
    [ini |-> i, fin |-> cola.e,
     g |-> <<Corte(s, a, par.e1), Corte(s, par.w, e), Corte(s, cola.c, cola.e)>>]

\* Group 2 is greedy: the longest end e for which the rest matches; then the
\* lazy gap: the nearest label position p at or after e; then the label
\* alternatives in order, and the tail.
NombreDobCon(s, i, k, a, par, P) ==
    LET E == {e \in (par.w + 2)..par.max : AlAlcance(s, k, P, e) # {}}
    IN IF E = {} THEN NoMatch
       ELSE NombreDobDe(s, i, a, par, Max(E),
              ColaDob(s, FinesBuenos(s, Min(AlAlcance(s, k, P, Max(E))), k)[1]))

NombreDobDesde(s, i, k, a) ==
    IF a = 0 \/ ~ParNombre(s, a).ok THEN NoMatch
    ELSE NombreDobCon(s, i, k, a, ParNombre(s, a),
                      Etiquetas(s, k, ParNombre(s, a).w))

\* Pattern k of NAME_DOB_REGEXES anchored at i (IGNORECASE | DOTALL)
MatchNombreDobEn(s, i, k) == NombreDobDesde(s, i, k, InicioNombre(s, i, k))

\* (\d{1,2}[/-]\d{1,2}[/-]\d{2,4}) at c, for a match that starts at i
DobNumerica(s, i, c, e) ==
    IF e = <<>> THEN NoMatch
    ELSE [ini |-> i, fin |-> e[3], g |-> <<Corte(s, c, e[3])>>]

\* end (exclusive) of the \d{2,4} that starts at b2, whatever its length
FinHasta4(s, b2) ==
    IF FinRacha(s, b2, DigitoSet) > b2 + 4 THEN b2 + 4
    ELSE FinRacha(s, b2, DigitoSet)

\* ,?\s+\d{2,4} at d, the end of the day, for a group that starts at c
DobMesAnio(s, i, c, co) ==
    IF FinRacha(s, co, EspacioSet) > co
       /\ FinHasta4(s, FinRacha(s, co, EspacioSet)) >= FinRacha(s, co, EspacioSet) + 2
    THEN [ini |-> i, fin |-> FinHasta4(s, FinRacha(s, co, EspacioSet)),
          g |-> <<Corte(s, c, FinHasta4(s, FinRacha(s, co, EspacioSet)))>>]
    ELSE NoMatch

\* \s+\d{1,2} from l, the end of the month name, to d
DobMesDia(s, i, c, l, b1, d) ==
    IF b1 > l /\ d - b1 >= 1 /\ d - b1 <= 2
    THEN DobMesAnio(s, i, c, IF d <= Len(s) /\ s[d] = "," THEN d + 1 ELSE d)
    ELSE NoMatch

\* ([A-Za-z]{3,9}\s+\d{1,2},?\s+\d{2,4}) at c; l is the end of the letters
DobMes(s, i, c, l) ==
    IF l - c >= 3 /\ l - c <= 9
    THEN DobMesDia(s, i, c, l, FinRacha(s, l, EspacioSet),
                   FinRacha(s, FinRacha(s, l, EspacioSet), DigitoSet))
    ELSE NoMatch

\* the group of pattern k of DOB_REGEXES at c
DobGrupo(s, i, k, c) ==
    IF k \in {1, 2} THEN DobNumerica(s, i, c, FechaNumEn(s, c))
    ELSE DobMes(s, i, c, FinRacha(s, c, LetraSet))

\* the literal pattern k of DOB_REGEXES starts with
DobLiteral(k) == IF k = 2 THEN Chars("Date of Birth") ELSE Chars("DOB")

\* Pattern k of DOB_REGEXES anchored at i (IGNORECASE)
\*   1: \bDOB[:\s]*(..)   2: \bDate of Birth[:\s]*(..)   3: \bDOB[:\s]*(..)
MatchDobEn(s, i, k) ==
    IF ~(LimiteEn(s, i) /\ EmpiezaEnCI(s, i, DobLiteral(k))) THEN NoMatch
    ELSE DobGrupo(s, i, k, FinRacha(s, i + Len(DobLiteral(k)), DosPuntosEsp))

\* the first of the positions f[x], f[x+1], ... with a \b, or 0
RECURSIVE PrimeroConLimite(_, _, _)
PrimeroConLimite(s, f, x) ==
    IF x > Len(f) THEN 0
    ELSE IF LimiteEn(s, f[x]) THEN f[x]
    ELSE PrimeroConLimite(s, f, x + 1)

\* where pattern k of NAME_ONLY_REGEXES ends when group 2 ends at e (0: the
\* rest does not match): \b for 1 and 2, \s*(?:DOB|D\.?O\.?B\.?)\b for 3
FinNombre(s, e, k) ==
    IF k < 3 THEN (IF LimiteEn(s, e) THEN e ELSE 0)
    ELSE PrimeroConLimite(s, FinesEtiqueta(s, FinRacha(s, e, EspacioSet)), 1)

\* group 2 is greedy: the longest end for which the rest matches
NombreSoloCon(s, i, k, a, par) ==
    LET E == {e \in (par.w + 2)..par.max : FinNombre(s, e, k) > 0}
    IN IF E = {} THEN NoMatch
       ELSE [ini |-> i, fin |-> FinNombre(s, Max(E), k),
             g |-> <<Corte(s, a, par.e1), Corte(s, par.w, Max(E))>>]

NombreSoloDesde(s, i, k, a) ==
    IF a = 0 \/ ~ParNombre(s, a).ok THEN NoMatch
    ELSE NombreSoloCon(s, i, k, a, ParNombre(s, a))

\* Pattern k of NAME_ONLY_REGEXES anchored at i (IGNORECASE)
\*   1: \bPatient\s*Name[:\s]*(..),\s*(..)\b
\*   2: \bPatient[:\s]*(?:\d+\s*-\s*)?(..),\s*(..)\b
\*   3: \b(..),\s*(..)\s*(?:DOB|D\.?O\.?B\.?)\b
MatchNombreEn(s, i, k) ==
    NombreSoloDesde(s, i, k, InicioNombre(s, i, IF k = 3 THEN 1 ELSE k + 1))

\* $ of re.MULTILINE at x: the end of the text or before a newline
FinLinea(s, x) == x = Len(s) + 1 \/ (x <= Len(s) /\ s[x] = "\n")

\* \s*$ anchored at e
BlancosYFin(s, e) == \E x \in e..FinRacha(s, e, EspacioSet) : FinLinea(s, x)

VentanaCon(s, i, conFin, par) ==
    LET E == {e \in (par.w + 2)..par.max : ~conFin \/ BlancosYFin(s, e)}
    IN IF E = {} THEN NoMatch
       ELSE [ini |-> i, fin |-> Max(E),
             g |-> <<Corte(s, i, par.e1), Corte(s, par.w, Max(E))>>]

\* The name searches of buscar_por_proximidad anchored at i of the window:
\*   conFin:  ([A-Z]..),\s*([A-Z]..)\s*$   (IGNORECASE | MULTILINE)
\*   ~conFin: ([A-Z]..),\s*([A-Z]..)       (IGNORECASE)
MatchVentanaEn(s, i, conFin) ==
    IF ~ParNombre(s, i).ok THEN NoMatch
    ELSE VentanaCon(s, i, conFin, ParNombre(s, i))

(***************************************************************************)
(* The three strategies and extraer_nombre_dob                             *)
(***************************************************************************)
\* re.search from position pos: the match with the leftmost start.
\* fam: "nd" NAME_DOB_REGEXES, "dob" DOB_REGEXES, "nom" NAME_ONLY_REGEXES
MatchEn(s, i, fam, k) ==
    IF fam = "nd" THEN MatchNombreDobEn(s, i, k)
    ELSE IF fam = "dob" THEN MatchDobEn(s, i, k)
    ELSE MatchNombreEn(s, i, k)

\* the match that starts at the least of the positions I
MatchPrimero(s, fam, k, I) ==
    IF I = {} THEN NoMatch ELSE MatchEn(s, Min(I), fam, k)

PrimerMatch(s, pos, fam, k) ==
    MatchPrimero(s, fam, k, {i \in pos..Len(s) : MatchEn(s, i, fam, k).ini # 0})

\* (None, None)
Nada == [nombre |-> <<>>, dob |-> <<>>]

\* "if nombre and dob" (lines 208, 212)
HayPar(r) == r.nombre # <<>> /\ r.dob # <<>>

\* re.finditer(pattern k of the family fam, s) from pos on: the matches, in
\* order, each search starting where the previous match ended
RECURSIVE Finditer(_, _, _, _)
FinditerCon(s, fam, k, m) ==
    IF m.ini = 0 THEN <<>> ELSE <<m>> \o Finditer(s, m.fin, fam, k)

Finditer(s, pos, fam, k) == FinditerCon(s, fam, k, PrimerMatch(s, pos, fam, k))

\* a candidate is returned when its date normalized and its name is valid
\* (lines 172-173 and 200-201), else it counts for nothing
ParCandidato(dob, nombre) ==
    IF dob.ok /\ es_nombre_valido(nombre)
    THEN [nombre |-> nombre, dob |-> dob.val]
    ELSE Nada

\* buscar_por_linea giving up at the first bad candidate
LineaCandidatoAborta(texto, k, m, dob, nombre) == ParCandidato(dob, nombre)

\* buscar_por_linea: the loops over NAME_DOB_REGEXES[k] and over the matches
\* of re.finditer from position pos on
RECURSIVE LineaDesde(_, _, _)
\* lines 169-174 for the match m: dob and nombre of the candidate
LineaCandidato(texto, k, m, dob, nombre) ==
    IF dob.ok /\ es_nombre_valido(nombre)
    THEN [nombre |-> nombre, dob |-> dob.val]
    ELSE LineaDesde(texto, k, m.fin)

\* lines 167-168 for the next match m of pattern k (ini = 0: no more)
LineaMatch(texto, k, m) ==
    IF m.ini = 0 THEN LineaDesde(texto, k + 1, 1)
    ELSE LineaCandidato(texto, k, m, normalizar_fecha(Strip(m.g[3])),
                        formar_nombre(Strip(m.g[2]), Strip(m.g[1])))

LineaDesde(texto, k, pos) ==
    IF k > 4 THEN Nada
    ELSE LineaMatch(texto, k, PrimerMatch(texto, pos, "nd", k))

buscar_por_linea(texto) == LineaDesde(texto, 1, 1)

\* ventana_previa(texto, pos, ancho) for the 1-based position of m.start()
ventana_previa(texto, ini, ancho) ==
    Corte(texto, IF ini - ancho > 1 THEN ini - ancho ELSE 1, ini)

\* re.search of one of the two name patterns in the window
VentanaPrimero(win, conFin, I) ==
    IF I = {} THEN NoMatch ELSE MatchVentanaEn(win, Min(I), conFin)

BuscarVentana(win, conFin) ==
    VentanaPrimero(win, conFin,
        {i \in 1..Len(win) : MatchVentanaEn(win, i, conFin).ini # 0})

\* buscar_por_proximidad: the loops over DOB_REGEXES[k] and over the matches
RECURSIVE ProximidadDesde(_, _, _)
\* lines 198-202 for the name match mname (ini = 0: no name in the window)
ProximidadNombre(texto, k, m, dob, mname, nombre) ==
    IF mname.ini # 0 /\ es_nombre_valido(nombre)
    THEN [nombre |-> nombre, dob |-> dob.val]
    ELSE ProximidadDesde(texto, k, m.fin)

\* lines 193-197: the line-end pattern first, then the plain one
ProximidadMname(texto, k, m, dob, mname) ==
    ProximidadNombre(texto, k, m, dob, mname,
                     formar_nombre(Strip(mname.g[2]), Strip(mname.g[1])))

ProximidadVentana(texto, k, m, dob, win, m1) ==
    ProximidadMname(texto, k, m, dob,
                    IF m1.ini # 0 THEN m1 ELSE BuscarVentana(win, FALSE))

\* lines 186-192 for the date dob of the match m
ProximidadFecha(texto, k, m, dob, win) ==
    IF ~dob.ok THEN ProximidadDesde(texto, k, m.fin)
    ELSE ProximidadVentana(texto, k, m, dob, win, BuscarVentana(win, TRUE))

\* lines 184-185 for the next match m of pattern k (ini = 0: no more)
ProximidadMatch(texto, k, m) ==
    IF m.ini = 0 THEN ProximidadDesde(texto, k + 1, 1)
    ELSE ProximidadFecha(texto, k, m, normalizar_fecha(m.g[1]),
                         ventana_previa(texto, m.ini, 200))

ProximidadDesde(texto, k, pos) ==
    IF k > 3 THEN Nada
    ELSE ProximidadMatch(texto, k, PrimerMatch(texto, pos, "dob", k))

buscar_por_proximidad(texto) == ProximidadDesde(texto, 1, 1)

\* lines 216-224: the first pattern of DOB_REGEXES whose first match
\* normalizes gives first_dob (<<>> for None)
RECURSIVE PrimeraDob(_, _)
DobDeMatch(texto, k, m, dob) ==
    IF dob.ok THEN dob.val ELSE PrimeraDob(texto, k + 1)

DobDeSearch(texto, k, m) ==
    IF m.ini = 0 THEN PrimeraDob(texto, k + 1)
    ELSE DobDeMatch(texto, k, m, normalizar_fecha(m.g[1]))

PrimeraDob(texto, k) ==
    IF k > 3 THEN <<>>
    ELSE DobDeSearch(texto, k, PrimerMatch(texto, 1, "dob", k))

\* lines 225-233: the first pattern of NAME_ONLY_REGEXES whose first match
\* is a valid name gives the name
RECURSIVE PrimerNombre(_, _)
NombreDeMatch(texto, k, nombre) ==
    IF es_nombre_valido(nombre) THEN nombre ELSE PrimerNombre(texto, k + 1)

NombreDeSearch(texto, k, m) ==
    IF m.ini = 0 THEN PrimerNombre(texto, k + 1)
    ELSE NombreDeMatch(texto, k, formar_nombre(Strip(m.g[2]), Strip(m.g[1])))

PrimerNombre(texto, k) ==
    IF k > 3 THEN <<>>
    ELSE NombreDeSearch(texto, k, PrimerMatch(texto, 1, "nom", k))

\* the last resort returning whatever it found
ParParcial(first_dob, nombre) == [nombre |-> nombre, dob |-> first_dob]

\* the last resort of extraer_nombre_dob (lines 214-233)
ParDe(first_dob, nombre) ==
    IF first_dob # <<>> /\ nombre # <<>>
    THEN [nombre |-> nombre, dob |-> first_dob]
    ELSE Nada

ultimo_recurso(texto) == ParDe(PrimeraDob(texto, 1), PrimerNombre(texto, 1))

\* leer_texto_pdf: the text of pdfplumber, or the OCR of the first page when
\* that text is blank, through normalizar_ocr.  A failure of either library
\* is caught there and leaves the empty text.
leer_texto_pdf(d) ==
    normalizar_ocr(IF Strip(d.pdf) # <<>> THEN d.pdf ELSE d.ocr)

\* extraer_nombre_dob starting with strategy B
PrimeraEtapaB == "B"

\* the strategy extraer_nombre_dob runs first (line 207)
PrimeraEtapa == "A"

(***************************************************************************)
(* Each specification runs one part of the program; the variables of the   *)
(* other parts stay idle.                                                  *)
(***************************************************************************)
OcrIdle == ocr_pc = "off" /\ ocr_x = <<>> /\ ocr_y1 = <<>> /\ ocr_y2 = <<>>
FechaIdle == f_pc = "off" /\ f_in = <<>> /\ f_out = Falla
ExtraerIdle ==
    /\ e_pc = "off" /\ doc = [pdf |-> <<>>, ocr |-> <<>>] /\ txt = <<>>
    /\ intentos = <<>> /\ resA = Nada /\ resB = Nada /\ resC = Nada
    /\ resultado = Nada
MainIdle ==
    /\ m_prog = "off" /\ m_pc = "off" /\ m_lista = <<>> /\ m_i = 0
    /\ m_destino = {} /\ m_movidos = <<>> /\ m_log = <<>>
    /\ no_renombrados = <<>>

(***************************************************************************)
(* Specification of the text normalizer: a raw text is normalized once,    *)
(* and the result is normalized again.                                     *)
(***************************************************************************)
MaxOcrLen == 5
OcrAlfabeto == {"D", "0", "O", "B", " ", "\t", "\r", "/", "."}

RECURSIVE SeqsHasta(_, _)
SeqsHasta(S, n) ==
    IF n = 0 THEN {<<>>}
    ELSE LET prev == SeqsHasta(S, n - 1)
         IN prev \cup {Append(p, c) : p \in {q \in prev : Len(q) = n - 1}, c \in S}

OcrInit ==
    /\ ocr_pc = "raw"
    /\ ocr_x \in SeqsHasta(OcrAlfabeto, MaxOcrLen)
    /\ ocr_y1 = <<>>
    /\ ocr_y2 = <<>>
    /\ FechaIdle /\ ExtraerIdle /\ MainIdle

OcrPrimera ==
    /\ ocr_pc = "raw"
    /\ ocr_y1' = normalizar_ocr(ocr_x)
    /\ ocr_pc' = "once"
    /\ UNCHANGED <<ocr_x, ocr_y2>>
    /\ UNCHANGED <<f_vars, e_vars, m_vars>>

OcrSegunda ==
    /\ ocr_pc = "once"
    /\ ocr_y2' = normalizar_ocr(ocr_y1)
    /\ ocr_pc' = "twice"
    /\ UNCHANGED <<ocr_x, ocr_y1>>
    /\ UNCHANGED <<f_vars, e_vars, m_vars>>

OcrNext == OcrPrimera \/ OcrSegunda

SpecOcr == OcrInit /\ [][OcrNext]_vars

\* C6: normalizing an already normalized text changes nothing
C6_Idempotente == ocr_pc = "twice" => ocr_y2 = ocr_y1

(***************************************************************************)
(* Specification of the date normalizer: one captured date string is       *)
(* normalized.                                                             *)
(***************************************************************************)
FechaMeses == {Chars("3"), Chars("03"), Chars("12"), Chars("13"), Chars("45")}
FechaDias == {Chars("4"), Chars("31"), Chars("45")}
FechaAnios == {Chars("1899"), Chars("1900"), Chars("1980"), Chars("2100"),
               Chars("2101"), Chars("80"), Chars("980")}
FechaSeps == {"/", "-", "."}

FechaEntradas ==
    {m \o <<p>> \o d \o <<p>> \o y :
        m \in FechaMeses, d \in FechaDias, y \in FechaAnios, p \in FechaSeps}
    \cup {Chars("Sep 10, 1980"), Chars("Sep 45, 1980"), Chars("Sep 10 1899"),
          Chars("no date"), Chars(" 03/04/1980 ")}

FechaInit ==
    /\ f_pc = "in"
    /\ f_in \in FechaEntradas
    /\ f_out = Falla
    /\ OcrIdle /\ ExtraerIdle /\ MainIdle

FechaNormalizar ==
    /\ f_pc = "in"
    /\ f_out' = normalizar_fecha(f_in)
    /\ f_pc' = "out"
    /\ UNCHANGED <<f_in>>
    /\ UNCHANGED <<ocr_vars, e_vars, m_vars>>

FechaNext == FechaNormalizar

SpecFecha == FechaInit /\ [][FechaNext]_vars

\* the year of a date string MM-DD-YYYY..., the digits after the second "-"
AnioDe(val) == ParseInt(SubSeq(val, 7, Len(val)))

\* C5: every date string normalizar_fecha returns has a four-digit year
\* between 1900 and 2100
C5_AnioEnRango ==
    (f_pc = "out" /\ f_out.ok) =>
        /\ Len(f_out.val) = 10
        /\ AnioDe(f_out.val) >= 1900 /\ AnioDe(f_out.val) <= 2100

(***************************************************************************)
(* Specification of the extraction: procesar_pdf on one document.  The     *)
(* documents are made of up to MaxLineas lines of a table of lines.        *)
(***************************************************************************)
MaxLineas == 3

LineasDoc == <<
    Chars("SMITH, JOHN DOB: 03/04/1980"),
    Chars("GARCIA, ANA DOB: 05/06/1990"),
    Chars("Patient Name: SMITH, JOHN"),
    Chars("Patient Name: LIPID, PANEL"),
    Chars("D0B: 03/04/1980"),
    Chars("DOB: Sep 45, 1980"),
    Chars("DOB:\tSep 10, 1980"),
    Chars("LIPID, PANEL RESULTS DOB: 01/02/1970"),
    Chars("Patient Name: SMITH, JOHN ... DOB: 03/04/1980"),
    Chars("SMITH, JOHN") >>

\* "\n".join of the lines numbered by idx
RECURSIVE UnirLineas(_)
UnirLineas(idx) ==
    IF Len(idx) = 0 THEN <<>>
    ELSE IF Len(idx) = 1 THEN LineasDoc[idx[1]]
    ELSE LineasDoc[idx[1]] \o <<"\n">> \o UnirLineas(Tail(idx))

Textos ==
    {UnirLineas(idx) : idx \in UNION {[1..n -> DOMAIN LineasDoc] : n \in 1..MaxLineas}}

\* documents with a text layer, and scanned documents (blank text layer)
\* whose OCR gives a text, blanks or nothing
Documentos ==
    {[pdf |-> t, ocr |-> <<>>] : t \in Textos}
    \cup {[pdf |-> b, ocr |-> o] :
            b \in {<<>>, Chars(" \n")},
            o \in {<<>>, Chars(" \r\n"), Chars("SMITH, JOHN D 0 B 03/04/1980")}}

Init ==
    /\ e_pc = "leer"
    /\ doc \in Documentos
    /\ txt = <<>>
    /\ intentos = <<>>
    /\ resA = Nada /\ resB = Nada /\ resC = Nada
    /\ resultado = Nada
    /\ OcrIdle /\ FechaIdle /\ MainIdle

\* procesar_pdf, lines 238-240
Leer ==
    /\ e_pc = "leer"
    /\ txt' = leer_texto_pdf(doc)
    /\ e_pc' = IF Strip(txt') = <<>> THEN "fin" ELSE PrimeraEtapa
    /\ UNCHANGED <<doc, intentos, resA, resB, resC, resultado>>
    /\ UNCHANGED <<ocr_vars, f_vars, m_vars>>

\* extraer_nombre_dob, lines 207-209
EtapaA ==
    /\ e_pc = "A"
    /\ resA' = buscar_por_linea(txt)
    /\ intentos' = Append(intentos, "A")
    /\ IF HayPar(resA')
       THEN resultado' = resA' /\ e_pc' = "fin"
       ELSE resultado' = resultado /\ e_pc' = "B"
    /\ UNCHANGED <<doc, txt, resB, resC>>
    /\ UNCHANGED <<ocr_vars, f_vars, m_vars>>

\* extraer_nombre_dob, lines 211-213
EtapaB ==
    /\ e_pc = "B"
    /\ resB' = buscar_por_proximidad(txt)
    /\ intentos' = Append(intentos, "B")
    /\ IF HayPar(resB')
       THEN resultado' = resB' /\ e_pc' = "fin"
       ELSE resultado' = resultado /\ e_pc' = "C"
    /\ UNCHANGED <<doc, txt, resA, resC>>
    /\ UNCHANGED <<ocr_vars, f_vars, m_vars>>

\* extraer_nombre_dob, lines 214-233
EtapaC ==
    /\ e_pc = "C"
    /\ resC' = ultimo_recurso(txt)
    /\ intentos' = Append(intentos, "C")
    /\ resultado' = resC'
    /\ e_pc' = "fin"
    /\ UNCHANGED <<doc, txt, resA, resB>>
    /\ UNCHANGED <<ocr_vars, f_vars, m_vars>>

Next == Leer \/ EtapaA \/ EtapaB \/ EtapaC

Spec == Init /\ [][Next]_vars

(***************************************************************************)
(* Properties of the extraction                                            *)
(***************************************************************************)
Ordenadas == <<"A", "B", "C">>

\* C1: the strategies run in the order A, B, C, a strategy runs only when
\* every earlier one returned no pair, and when A yields a pair the result
\* is A's pair and nothing else has run
C1_Precedencia ==
    /\ \E n \in 0..3 : intentos = SubSeq(Ordenadas, 1, n)
    /\ Len(intentos) >= 2 => ~HayPar(resA)
    /\ Len(intentos) >= 3 => ~HayPar(resB)
    /\ (e_pc = "fin" /\ Strip(txt) # <<>>) =>
          /\ Len(intentos) >= 1
          /\ HayPar(resA) => (resultado = resA /\ intentos = <<"A">>)

\* A's pair won on a text where strategy B gives another pair
C1_Witness ==
    /\ e_pc = "fin" /\ HayPar(resA) /\ resultado = resA
    /\ HayPar(buscar_por_proximidad(txt))
    /\ buscar_por_proximidad(txt) # resA

\* C2: what a strategy returns, and what procesar_pdf returns, is
\* (None, None) or a name and a date that are both there
C2_ParCompleto ==
    \A r \in {resA, resB, resC, resultado} :
        r = Nada \/ (r.nombre # <<>> /\ r.dob # <<>>)

\* strategy C found a first date and no valid name
C2_Witness ==
    /\ e_pc = "fin" /\ intentos = Ordenadas
    /\ PrimeraDob(txt, 1) # <<>>
    /\ resC = Nada /\ resultado = Nada

\* the four conditions on a name, on the name as returned
TresDigitos(n) ==
    \E i \in 1..(Len(n) - 2) : \A j \in i..(i + 2) : n[j] \in DigitoSet

NombreAceptable(n) ==
    /\ Len(n) >= 5
    /\ \E i \in 1..Len(n) : n[i] = " "
    /\ ~TresDigitos(n)
    /\ \A neg \in NEGATIVOS : ~Contiene(Upper(n), neg)

\* C3: every returned name has five characters or more, a space, no run of
\* three digits and no entry of NEGATIVOS in it; "LIPID PANEL RESULTS" is
\* never returned
C3_NombreValido ==
    \A r \in {resA, resB, resC, resultado} :
        r # Nada => /\ NombreAceptable(r.nombre)
                    /\ r.nombre # Chars("LIPID PANEL RESULTS")

\* a pair was returned for a text that holds the candidate LIPID, PANEL RESULTS
C3_Witness ==
    /\ e_pc = "fin" /\ HayPar(resultado)
    /\ Contiene(txt, Chars("LIPID, PANEL RESULTS DOB"))

\* C7: for the text "Patient Name: SMITH, JOHN ... DOB: 03/04/1980" the
\* name is returned given name first (compared without regard to case) with
\* the date 03-04-1980
C7_DadoPrimero ==
    (e_pc = "fin" /\ doc.pdf = Chars("Patient Name: SMITH, JOHN ... DOB: 03/04/1980"))
        => /\ Upper(resultado.nombre) = Chars("JOHN SMITH")
           /\ resultado.dob = Chars("03-04-1980")

\* the matches of re.finditer of every pattern of a family, by pattern
\* priority and then by position
TodosLosMatches(texto, fam, n) ==
    [k \in 1..n |-> Finditer(texto, 1, fam, k)]

\* the first member of the sequences cs[1], cs[2], .. that is a pair
PrimerBuenoDe(c) ==
    IF \E j \in 1..Len(c) : c[j] # Nada
    THEN c[Min({j \in 1..Len(c) : c[j] # Nada})]
    ELSE Nada

RECURSIVE PrimerBueno(_, _)
PrimerBuenoO(cs, k, r) == IF r # Nada THEN r ELSE PrimerBueno(cs, k + 1)

PrimerBueno(cs, k) ==
    IF k > Len(cs) THEN Nada ELSE PrimerBuenoO(cs, k, PrimerBuenoDe(cs[k]))

\* the candidate of strategy A for a match of NAME_DOB_REGEXES
CandidatoLinea(m) ==
    ParCandidato(normalizar_fecha(Strip(m.g[3])),
                 formar_nombre(Strip(m.g[2]), Strip(m.g[1])))

\* the candidate of strategy B for a match of DOB_REGEXES: the name is the
\* one the window before the match gives
NombreDeVentana(m1, m2) ==
    IF m1.ini # 0 THEN formar_nombre(Strip(m1.g[2]), Strip(m1.g[1]))
    ELSE IF m2.ini # 0 THEN formar_nombre(Strip(m2.g[2]), Strip(m2.g[1]))
    ELSE <<>>

CandidatoVentana(dob, win) ==
    ParCandidato(dob, NombreDeVentana(BuscarVentana(win, TRUE),
                                      BuscarVentana(win, FALSE)))

CandidatoProximidad(texto, m) ==
    CandidatoVentana(normalizar_fecha(m.g[1]), ventana_previa(texto, m.ini, 200))

CandidatosDe(ms, texto, fam) ==
    [k \in 1..Len(ms) |->
        [j \in 1..Len(ms[k]) |->
            IF fam = "nd" THEN CandidatoLinea(ms[k][j])
            ELSE CandidatoProximidad(texto, ms[k][j])]]

\* C8: strategies A and B return the first candidate, in the order of the
\* patterns and then of the positions of the matches, whose date normalizes
\* and whose name is valid, and (None, None) only when there is none
C8_PrimerCandidatoBueno ==
    e_pc = "fin" =>
        /\ Len(intentos) >= 1 =>
             resA = PrimerBueno(CandidatosDe(TodosLosMatches(txt, "nd", 4), txt, "nd"), 1)
        /\ Len(intentos) >= 2 =>
             resB = PrimerBueno(CandidatosDe(TodosLosMatches(txt, "dob", 3), txt, "dob"), 1)

\* strategy A returned a pair after a first match whose date does not
\* normalize
C8_Witness ==
    /\ e_pc = "fin" /\ HayPar(resA)
    /\ Len(Finditer(txt, 1, "nd", 1)) >= 2
    /\ ~normalizar_fecha(Strip(Finditer(txt, 1, "nd", 1)[1].g[3])).ok

\* some match of the family is a good date / a valid name
HayFechaValida(ms) ==
    \E k \in 1..Len(ms) : \E j \in 1..Len(ms[k]) :
        normalizar_fecha(ms[k][j].g[1]).ok

HayNombreValido(ms) ==
    \E k \in 1..Len(ms) : \E j \in 1..Len(ms[k]) :
        es_nombre_valido(formar_nombre(Strip(ms[k][j].g[2]), Strip(ms[k][j].g[1])))

\* C9: when A and B gave nothing and the text has a match of DOB_REGEXES
\* that normalizes and a match of NAME_ONLY_REGEXES that is a valid name,
\* a pair is returned
C9_PrimerValido ==
    (/\ e_pc = "fin" /\ intentos = Ordenadas
     /\ HayFechaValida(TodosLosMatches(txt, "dob", 3))
     /\ HayNombreValido(TodosLosMatches(txt, "nom", 3)))
        => HayPar(resultado)

(***************************************************************************)
(* The batch loops: main of the renamer (lines 244-275) and process_all of *)
(* the ETL (lines 99-128).  The output directory is the set of the names   *)
(* of its files; a path is the name in that directory.                     *)
(***************************************************************************)
\* s.lower().endswith(suf), suf in upper case
TerminaEnCI(s, suf) ==
    Len(s) >= Len(suf) /\ EmpiezaEnCI(s, Len(s) - Len(suf) + 1, suf)

\* archivo.lower().endswith(".pdf")
EsPdf(nombre) == TerminaEnCI(nombre, Chars(".PDF"))

Sufijo == Chars(" - Medical Records.pdf")

\* generar_destino without the loop that looks for a free name
generar_destino_sin_sufijo(base, existentes) == limpiar_nombre(base) \o Sufijo

\* the while loop of generar_destino (lines 101-104)
RECURSIVE DestinoDesde(_, _, _)
DestinoLibre(base, i, existentes, nombre_final) ==
    IF nombre_final \in existentes
    THEN DestinoDesde(base, i + 1, existentes)
    ELSE nombre_final

DestinoDesde(base, i, existentes) ==
    DestinoLibre(base, i, existentes,
                 base \o Chars(" (") \o IntAChars(i) \o <<")">> \o Sufijo)

\* generar_destino(base) when the output directory holds existentes
generar_destino(base, existentes) ==
    IF limpiar_nombre(base) \o Sufijo \in existentes
    THEN DestinoDesde(limpiar_nombre(base), 1, existentes)
    ELSE limpiar_nombre(base) \o Sufijo

\* the exceptions the loop body can raise, all of them subclasses of
\* Exception: in procesar_pdf, and in shutil.move
ExcepcionesProcesar == {"ValueError", "RuntimeError"}
ExcepcionesMover == {"OSError", "PermissionError"}
Excepciones == ExcepcionesProcesar \cup ExcepcionesMover

\* a handler that names ValueError only
SoloValueError(exc) == exc = "ValueError"

\* "except Exception as e" (line 264) catches exc
EsException(exc) == exc \in Excepciones

\* FORBIDDEN of the ETL
FORBIDDEN == {"<", ">", ":", "\"", "/", "\\", "|", "?", "*"}

\* s without the characters of S
Quitar(s, S) == SelectSeq(s, LAMBDA c : c \notin S)

Hasta150(s) == IF Len(s) > 150 THEN SubSeq(s, 1, 150) ELSE s

\* clean_filename of the ETL
clean_filename(s) ==
    Hasta150(Strip(Quitar(Strip(ColapsarEspacios(s)), FORBIDDEN)))

\* os.path.splitext of a name: the extension starts at the last point,
\* unless only points come before it
Puntos(s) == {i \in 1..Len(s) : s[i] = "."}

SplitextEn(s, d) ==
    IF \A i \in 1..(d - 1) : s[i] = "."
    THEN <<s, <<>> >>
    ELSE <<SubSeq(s, 1, d - 1), SubSeq(s, d, Len(s))>>

Splitext(s) ==
    IF Puntos(s) = {} THEN <<s, <<>> >> ELSE SplitextEn(s, Max(Puntos(s)))

\* the while loop of rename_file (lines 93-95)
RECURSIVE EtlDestinoDesde(_, _, _)
EtlDestinoLibre(be, i, existentes, dst) ==
    IF dst \in existentes THEN EtlDestinoDesde(be, i + 1, existentes) ELSE dst

EtlDestinoDesde(be, i, existentes) ==
    EtlDestinoLibre(be, i, existentes,
                    be[1] \o Chars(" (") \o IntAChars(i) \o <<")">> \o be[2])

\* the destination rename_file moves to (lines 85-95)
EtlDestinoDe(new_name, existentes) ==
    IF new_name \in existentes
    THEN EtlDestinoDesde(Splitext(new_name), 2, existentes)
    ELSE new_name

rename_file(original, patient_name, existentes) ==
    EtlDestinoDe(clean_filename(IF patient_name = <<>>
                                THEN Splitext(original)[1]
                                ELSE patient_name) \o Chars(".pdf"),
                 existentes)

MaxArchivos == 3

\* the entries a listing is made of: files, and the directory Renamed
Entradas == {
    [nombre |-> Chars("a.pdf"), dir |-> FALSE],
    [nombre |-> Chars("b.PDF"), dir |-> FALSE],
    [nombre |-> Chars("c.pdf"), dir |-> FALSE],
    [nombre |-> Chars("nota.txt"), dir |-> FALSE],
    [nombre |-> Chars("Renamed"), dir |-> TRUE] }

\* the listings: up to MaxArchivos entries with distinct names
Listas ==
    {l \in UNION {[1..n -> Entradas] : n \in 0..MaxArchivos} :
        \A i, j \in DOMAIN l : i # j => l[i] # l[j]}

\* what procesar_pdf can return with a name and a date
Pares == {
    [nombre |-> Chars("SMITH JOHN"), dob |-> Chars("03-04-1980")],
    [nombre |-> Chars("GARCIA ANA"), dob |-> Chars("05-06-1990")] }

\* what extract_patient_name can return
NombresEtl == {Chars("John Smith"), Chars("."), <<>>}

\* files the output directory may hold before the run
YaEnDestino(prog) ==
    IF prog = "renombrador"
    THEN {Chars("SMITH JOHN (03-04-1980) - Medical Records.pdf"),
          Chars("SMITH JOHN (03-04-1980) (1) - Medical Records.pdf")}
    ELSE {Chars("John Smith.pdf"), Chars("John Smith (2).pdf"), Chars("..pdf")}

MainInit ==
    /\ m_prog \in {"renombrador", "etl"}
    /\ m_pc = "lote"
    /\ m_lista \in Listas
    /\ m_i = 1
    /\ m_destino \in SUBSET YaEnDestino(m_prog)
    /\ m_movidos = <<>>
    /\ m_log = <<>>
    /\ no_renombrados = <<>>
    /\ OcrIdle /\ FechaIdle /\ ExtraerIdle

EnLote(prog) == m_prog = prog /\ m_pc = "lote" /\ m_i <= Len(m_lista)

\* the except clause of main (lines 264-267) for the exception exc, or the
\* exception leaving main
TrasExcepcion(exc) ==
    IF EsException(exc)
    THEN /\ m_log' = Append(m_log, [nivel |-> "ERROR:" \o exc,
                                    archivo |-> m_lista[m_i].nombre])
         /\ no_renombrados' = Append(no_renombrados, m_lista[m_i].nombre)
         /\ m_i' = m_i + 1
         /\ m_pc' = m_pc
    ELSE /\ m_pc' = "abortado"
         /\ UNCHANGED <<m_log, no_renombrados, m_i>>

\* main, lines 247-251: not a PDF, or a directory
Saltar ==
    /\ EnLote("renombrador")
    /\ ~EsPdf(m_lista[m_i].nombre) \/ m_lista[m_i].dir
    /\ m_i' = m_i + 1
    /\ UNCHANGED <<m_prog, m_pc, m_lista, m_destino, m_movidos, m_log, no_renombrados>>
    /\ UNCHANGED <<ocr_vars, f_vars, e_vars>>

\* main, lines 253-259: procesar_pdf gave a pair and the file is moved
Renombrar ==
    /\ EnLote("renombrador")
    /\ EsPdf(m_lista[m_i].nombre) /\ ~m_lista[m_i].dir
    /\ \E par \in Pares :
         LET base == par.nombre \o Chars(" (") \o par.dob \o <<")">>
             dst == generar_destino(base, m_destino)
         IN /\ m_movidos' = Append(m_movidos,
                                [de |-> m_lista[m_i].nombre, a |-> dst,
                                 existia |-> dst \in m_destino])
            /\ m_destino' = m_destino \cup {dst}
    /\ m_log' = Append(m_log, [nivel |-> "RENAMED", archivo |-> m_lista[m_i].nombre])
    /\ m_i' = m_i + 1
    /\ UNCHANGED <<m_prog, m_pc, m_lista, no_renombrados>>
    /\ UNCHANGED <<ocr_vars, f_vars, e_vars>>

\* main, lines 253-257 and 264-267: procesar_pdf gave a pair and
\* shutil.move raises, nothing moved
MoverFalla ==
    /\ EnLote("renombrador")
    /\ EsPdf(m_lista[m_i].nombre) /\ ~m_lista[m_i].dir
    /\ \E exc \in ExcepcionesMover : TrasExcepcion(exc)
    /\ UNCHANGED <<m_prog, m_lista, m_destino, m_movidos>>
    /\ UNCHANGED <<ocr_vars, f_vars, e_vars>>

\* main, lines 260-263: procesar_pdf gave (None, None)
SinPar ==
    /\ EnLote("renombrador")
    /\ EsPdf(m_lista[m_i].nombre) /\ ~m_lista[m_i].dir
    /\ m_log' = Append(m_log, [nivel |-> "NO_MATCH", archivo |-> m_lista[m_i].nombre])
    /\ no_renombrados' = Append(no_renombrados, m_lista[m_i].nombre)
    /\ m_i' = m_i + 1
    /\ UNCHANGED <<m_prog, m_pc, m_lista, m_destino, m_movidos>>
    /\ UNCHANGED <<ocr_vars, f_vars, e_vars>>

\* main, lines 253 and 264-267: procesar_pdf raises
ErrorProcesar ==
    /\ EnLote("renombrador")
    /\ EsPdf(m_lista[m_i].nombre) /\ ~m_lista[m_i].dir
    /\ \E exc \in ExcepcionesProcesar : TrasExcepcion(exc)
    /\ UNCHANGED <<m_prog, m_lista, m_destino, m_movidos>>
    /\ UNCHANGED <<ocr_vars, f_vars, e_vars>>

\* main, lines 269-275, and process_all, lines 104-106 and 126-128: the
\* loop is over
Terminar ==
    /\ m_pc = "lote" /\ m_i > Len(m_lista)
    /\ m_pc' = "fin"
    /\ UNCHANGED <<m_prog, m_lista, m_i, m_destino, m_movidos, m_log, no_renombrados>>
    /\ UNCHANGED <<ocr_vars, f_vars, e_vars>>

\* process_all, line 102: the list keeps the names that end in .pdf
EtlSaltar ==
    /\ EnLote("etl")
    /\ ~EsPdf(m_lista[m_i].nombre)
    /\ m_i' = m_i + 1
    /\ UNCHANGED <<m_prog, m_pc, m_lista, m_destino, m_movidos, m_log, no_renombrados>>
    /\ UNCHANGED <<ocr_vars, f_vars, e_vars>>

\* process_all, lines 108-124, and rename_file: the file is moved
EtlRenombrar ==
    /\ EnLote("etl")
    /\ EsPdf(m_lista[m_i].nombre)
    /\ \E name \in NombresEtl :
         LET dst == rename_file(m_lista[m_i].nombre, name, m_destino)
         IN /\ m_movidos' = Append(m_movidos,
                                [de |-> m_lista[m_i].nombre, a |-> dst,
                                 existia |-> dst \in m_destino])
            /\ m_destino' = m_destino \cup {dst}
    /\ m_i' = m_i + 1
    /\ UNCHANGED <<m_prog, m_pc, m_lista, m_log, no_renombrados>>
    /\ UNCHANGED <<ocr_vars, f_vars, e_vars>>

\* process_all, line 123: shutil.move raises and nothing catches it
EtlMoverFalla ==
    /\ EnLote("etl")
    /\ EsPdf(m_lista[m_i].nombre)
    /\ m_pc' = "abortado"
    /\ UNCHANGED <<m_prog, m_lista, m_i, m_destino, m_movidos, m_log, no_renombrados>>
    /\ UNCHANGED <<ocr_vars, f_vars, e_vars>>

MainNext ==
    \/ Saltar \/ Renombrar \/ MoverFalla \/ SinPar \/ ErrorProcesar
    \/ Terminar
    \/ EtlSaltar \/ EtlRenombrar \/ EtlMoverFalla

SpecMain == MainInit /\ [][MainNext]_vars

(***************************************************************************)
(* Properties of the batch loops                                           *)
(***************************************************************************)
\* how many members of the sequence q are x
Veces(q, x) == Cardinality({i \in 1..Len(q) : q[i] = x})

Origenes == [x \in 1..Len(m_movidos) |-> m_movidos[x].de]

\* the entries main processes: the PDF files
Procesable(e) == EsPdf(e.nombre) /\ ~e.dir

\* C4: main never stops before the end of the listing; every PDF the loop
\* has passed was either moved or listed in no_renombrados, exactly once,
\* the others not yet, and at the end the loop has passed them all
C4_LoteCompleto ==
    m_prog = "renombrador" =>
        /\ m_pc \in {"lote", "fin"}
        /\ \A j \in 1..Len(m_lista) :
             Veces(Origenes, m_lista[j].nombre)
               + Veces(no_renombrados, m_lista[j].nombre)
             = IF j < m_i /\ Procesable(m_lista[j]) THEN 1 ELSE 0
        /\ m_pc = "fin" => m_i = Len(m_lista) + 1

\* the run ended, the move of a document raised and a later one was renamed
C4_Witness ==
    /\ m_prog = "renombrador" /\ m_pc = "fin"
    /\ \E x, y \in 1..Len(m_log) :
         x < y /\ m_log[x].nivel = "ERROR:OSError" /\ m_log[y].nivel = "RENAMED"

\* C10: no move found its destination in the output directory, and the
\* destinations of the moves are pairwise distinct
C10_DestinoLibre ==
    /\ \A x \in 1..Len(m_movidos) : ~m_movidos[x].existia
    /\ \A x, y \in 1..Len(m_movidos) :
         x # y => m_movidos[x].a # m_movidos[y].a
    /\ Cardinality(m_destino) >= Len(m_movidos)

\* the renamer moved three documents with the same name and date to a
\* directory that held that name already
C10_Witness ==
    /\ m_prog = "renombrador" /\ m_pc = "fin" /\ Len(m_movidos) = 3
    /\ Chars("SMITH JOHN (03-04-1980) - Medical Records.pdf") \in m_destino
    /\ \A x \in 1..3 : Contiene(m_movidos[x].a, Chars("SMITH JOHN (03-04-1980) ("))

====
